---- MODULE Spec2Model ----
(***************************************************************************)
(* Model of cuip/hadoop/hic.py: HadoopImageCluster.mean.                   *)
(*                                                                         *)
(* img_rdd is the RDD of (path, uint8 array) pairs built by _getImgRDD.    *)
(* mean(n, nrows, ncols, ndims, asdf) maps _mean over the values and, when *)
(* asdf is true, maps every (path, matrix) pair to the row                 *)
(* (basename, CH0, CH1, CH2).  Spark runs the two maps pipelined, one task *)
(* per file, the tasks of different files in any interleaving; a task that *)
(* raises fails the job, and then the action returns no rows at all.       *)
(*                                                                         *)
(* Numbers: samples are uint8 (0..255).  np.mean accumulates in float64;   *)
(* the sums that occur are integers far below 2^53, so the sum is exact    *)
(* and the mean is the correctly rounded quotient sum/count.  The model    *)
(* keeps that quotient as a fraction in lowest terms <<num, den>>: equal   *)
(* fractions are equal float64 values.                                     *)
(***************************************************************************)
EXTENDS Integers, Sequences, FiniteSets, TLC

VARIABLES img_rdd, args, task, job, out

vars == <<img_rdd, args, task, job, out>>

(***************************************************************************)
(* Bounds of the model.                                                    *)
(***************************************************************************)
MaxN == 4
MaxRows == 2
MaxCols == 2
MaxDims == 3
MaxLen == 25
MaxPattern == 5

\* uint8: np.asarray(bytearray(y), dtype=np.uint8)
Uint8Mod == 256

Min(a, b) == IF a < b THEN a ELSE b

(***************************************************************************)
(* Arithmetic helpers.                                                     *)
(***************************************************************************)
RECURSIVE GCD(_, _)
GCD(a, b) == IF b = 0 THEN a ELSE GCD(b, a % b)

\* The quotient num/den (den > 0) in lowest terms.
Ratio(num, den) == LET g == GCD(num, den) IN <<num \div g, den \div g>>

RECURSIVE SeqSum(_)
SeqSum(s) == IF s = <<>> THEN 0 ELSE Head(s) + SeqSum(Tail(s))

(***************************************************************************)
(* Decoder: the slice and the reshape of line 102.                         *)
(***************************************************************************)
\* x[lo:hi] for 0 <= lo <= hi: the bounds are clamped to the array, so a
\* range that runs past the end yields a shorter (possibly empty) array.
Slice(x, lo, hi) == SubSeq(x, Min(lo, Len(x)) + 1, Min(hi, Len(x)))

\* Variant: the offset without the channel factor.
BlockStartNoDims(i, nrows, ncols, ndims) == i * nrows * ncols

\* i*nrows*ncols*ndims
BlockStart(i, nrows, ncols, ndims) == i * nrows * ncols * ndims

\* (i+1)*nrows*ncols*ndims
BlockStop(i, nrows, ncols, ndims) == (i + 1) * nrows * ncols * ndims

\* Consecutive pieces of k elements each.
Chunk(s, k) == [j \in 1..(Len(s) \div k) |-> SubSeq(s, (j - 1) * k + 1, j * k)]

\* ndarray.reshape raises ValueError unless the sizes agree.
CanReshape(flat, nrows, ncols, ndims) == Len(flat) = nrows * ncols * ndims

\* Variant: the reshape in Fortran order (the first index fastest).
ReshapeF(flat, nrows, ncols, ndims) ==
    [r \in 1..nrows |-> [c \in 1..ncols |-> [d \in 1..ndims |->
        flat[(d - 1) * nrows * ncols + (c - 1) * nrows + r]]]]

\* flat.reshape(nrows, ncols, ndims) in C order: the array is cut into nrows
\* rows, every row into ncols pixels of ndims samples.
Reshape(flat, nrows, ncols, ndims) ==
    LET rows == Chunk(flat, ncols * ndims)
    IN  [r \in 1..nrows |-> Chunk(rows[r], ndims)]

(***************************************************************************)
(* Reducer: _perDim and np.mean.                                           *)
(***************************************************************************)
\* img[:,:,d] (d counted from 0): the samples of channel d, row after row.
Plane(img, d) ==
    LET RECURSIVE Rows(_)
        Rows(r) == IF r > Len(img) THEN <<>>
                   ELSE [c \in 1..Len(img[r]) |-> img[r][c][d + 1]] \o Rows(r + 1)
    IN  Rows(1)

\* Variant: the sum misses the last element.
NpMeanDropLast(a) == Ratio(SeqSum(SubSeq(a, 1, Len(a) - 1)), Len(a))

\* np.mean(a): float64 sum divided by the number of elements.
NpMean(a) == Ratio(SeqSum(a), Len(a))

\* _perDim(img, ndims): the mean of every channel 0..ndims-1.
_perDim(img, ndims) == [d1 \in 1..ndims |-> NpMean(Plane(img, d1 - 1))]

\* _mean(x): the list comprehension over i in range(n), evaluated in one go.
\* It raises (ValueError) as soon as one reshape does.
MeanRaises(x, n, nrows, ncols, ndims) ==
    \E i \in 0..(n - 1) :
        ~CanReshape(Slice(x, BlockStart(i, nrows, ncols, ndims),
                             BlockStop(i, nrows, ncols, ndims)), nrows, ncols, ndims)

_mean(x, n, nrows, ncols, ndims) ==
    [i1 \in 1..n |->
        _perDim(Reshape(Slice(x, BlockStart(i1 - 1, nrows, ncols, ndims),
                                 BlockStop(i1 - 1, nrows, ncols, ndims)),
                        nrows, ncols, ndims),
                ndims)]

(***************************************************************************)
(* The row of the dataframe (lines 109-113).                               *)
(***************************************************************************)
RECURSIVE LastSlash(_, _)
LastSlash(p, k) == IF k = 0 THEN 0
                   ELSE IF p[k] = "/" THEN k ELSE LastSlash(p, k - 1)

\* os.path.basename(p): what follows the last "/" (all of p without one).
Basename(p) == SubSeq(p, LastSlash(p, Len(p)) + 1, Len(p))

\* m[i][j] on lists (i, j counted from 0) raises IndexError out of range.
CanIndex(m, i, j) == /\ i + 1 \in DOMAIN m
                     /\ j + 1 \in DOMAIN m[i + 1]

CanFormat(m) == CanIndex(m, 0, 1) /\ CanIndex(m, 1, 1) /\ CanIndex(m, 2, 1)

\* Variant: the columns read channel 0.
FormatRowChannel0(path, m) ==
    [Filename |-> Basename(path),
     CH0 |-> m[1][1], CH1 |-> m[2][1], CH2 |-> m[3][1]]

\* (os.path.basename(x[0]), float(x[1][0][1]), float(x[1][1][1]),
\*  float(x[1][2][1])) under the schema Filename, CH0, CH1, CH2.
FormatRow(path, m) ==
    [Filename |-> Basename(path),
     CH0 |-> m[1][2], CH1 |-> m[2][2], CH2 |-> m[3][2]]

(***************************************************************************)
(* Inputs.                                                                 *)
(***************************************************************************)
\* Sample j (from 0) of pattern s.  An even s is a ramp whose neighbours
\* differ; an odd s has period p = (s + 1) \div 2: every p-th sample is the
\* constant 200 + p and the others follow the ramp, so that channel 0 is
\* constant whenever p divides ndims.
Pattern(s, j) ==
    IF s % 2 = 0 THEN ((37 + s) * j + 11 * (s + 1)) % Uint8Mod
    ELSE LET p == (s + 1) \div 2
         IN  IF j % p = 0 THEN 200 + p ELSE (37 * j + 11) % Uint8Mod

Base(s, len) == [j \in 1..len |-> Pattern(s, j - 1)]

RichBuffers == {Base(s, len) : s \in 0..MaxPattern, len \in 0..MaxLen}

Paths == << <<"a">>, <<"d", "/", "a">>, <<"d", "/", "e", "/", "b">> >>

RunLens == {2, 6, 7}

RunBuffers == {Base(0, len) : len \in RunLens}

Geoms == [n : 1..MaxN, nrows : 1..MaxRows, ncols : 1..MaxCols, ndims : 1..MaxDims]

RunGeoms == {g \in Geoms : g.nrows = 1 /\ g.ncols = 1}

NoArgs == [n |-> 0, nrows |-> 0, ncols |-> 0, ndims |-> 0, asdf |-> FALSE]

\* The subsequence of Paths picked by the index set I, in listing order.
RECURSIVE Listing(_, _)
Listing(I, k) == IF k > Len(Paths) THEN <<>>
                 ELSE (IF k \in I THEN <<Paths[k]>> ELSE <<>>) \o Listing(I, k + 1)

Files == DOMAIN img_rdd

IdleTask == [pc |-> "idle", i |-> 0, imgs |-> <<>>, acc |-> <<>>, row |-> <<>>, exc |-> ""]

InitRest ==
    /\ args = NoArgs
    /\ task = [k \in DOMAIN img_rdd |-> IdleTask]
    /\ job = [st |-> "idle", exc |-> ""]
    /\ out = <<>>

\* A run over any subset of the listed paths.
Init ==
    /\ \E I \in SUBSET (1..Len(Paths)) :
         \E bufs \in [1..Cardinality(I) -> RunBuffers] :
            img_rdd = [k \in 1..Cardinality(I) |->
                          [path |-> Listing(I, 1)[k], arr |-> bufs[k]]]
    /\ InitRest

\* A run over one file.
InitFile ==
    /\ \E b \in RichBuffers : img_rdd = << [path |-> Paths[2], arr |-> b] >>
    /\ InitRest

(***************************************************************************)
(* Operations.                                                             *)
(***************************************************************************)
\* mean(n, nrows, ncols, ndims, asdf) followed by the action that runs it.
Mean(g, asdf) ==
    /\ job.st = "idle"
    /\ args' = [n |-> g.n, nrows |-> g.nrows, ncols |-> g.ncols,
                ndims |-> g.ndims, asdf |-> asdf]
    /\ task' = [k \in Files |-> [IdleTask EXCEPT !.pc = "mean"]]
    /\ job' = [job EXCEPT !.st = "running"]
    /\ UNCHANGED <<img_rdd, out>>

\* Variant: only the last block's means are kept.
AppendReplace(acc, m) == <<m>>

\* the list comprehension's result grows by one element per i
AppendMean(acc, m) == Append(acc, m)

\* One iteration i of the list comprehension of _mean on file k.
MeanBlock(k) ==
    /\ job.st = "running"
    /\ task[k].pc = "mean"
    /\ task[k].i < args.n
    /\ LET t == task[k]
           flat == Slice(img_rdd[k].arr,
                         BlockStart(t.i, args.nrows, args.ncols, args.ndims),
                         BlockStop(t.i, args.nrows, args.ncols, args.ndims))
       IN  IF CanReshape(flat, args.nrows, args.ncols, args.ndims)
           THEN LET img == Reshape(flat, args.nrows, args.ncols, args.ndims)
                IN  /\ task' = [task EXCEPT ![k] =
                                  [t EXCEPT !.i = t.i + 1,
                                            !.imgs = Append(t.imgs, img),
                                            !.acc = AppendMean(t.acc, _perDim(img, args.ndims))]]
                    /\ UNCHANGED job
           ELSE /\ task' = [task EXCEPT ![k] = [t EXCEPT !.pc = "raised", !.exc = "ValueError"]]
                /\ job' = [st |-> "failed", exc |-> "ValueError"]
    /\ UNCHANGED <<img_rdd, args, out>>

\* _mean returns; with asdf the pair goes on to the formatting lambda.
MeanReturn(k) ==
    /\ job.st = "running"
    /\ task[k].pc = "mean"
    /\ task[k].i = args.n
    /\ task' = [task EXCEPT ![k].pc = IF args.asdf THEN "format" ELSE "done"]
    /\ UNCHANGED <<img_rdd, args, job, out>>

\* The lambda of mean_formatted on file k.
Format(k) ==
    /\ job.st = "running"
    /\ task[k].pc = "format"
    /\ IF CanFormat(task[k].acc)
       THEN /\ task' = [task EXCEPT ![k].pc = "done",
                                    ![k].row = FormatRow(img_rdd[k].path, task[k].acc)]
            /\ UNCHANGED job
       ELSE /\ task' = [task EXCEPT ![k].pc = "raised", ![k].exc = "IndexError"]
            /\ job' = [st |-> "failed", exc |-> "IndexError"]
    /\ UNCHANGED <<img_rdd, args, out>>

\* Variant: files are keyed by basename, so a second file of the same
\* basename yields no record.
CollectDistinct ==
    LET RECURSIVE Rows(_)
        Rows(k) == IF k > Len(img_rdd) THEN <<>>
                   ELSE (IF \E j \in 1..(k - 1) :
                               Basename(img_rdd[j].path) = Basename(img_rdd[k].path)
                         THEN <<>>
                         ELSE << IF args.asdf THEN task[k].row
                                 ELSE <<img_rdd[k].path, task[k].acc>> >>) \o Rows(k + 1)
    IN  Rows(1)

\* What the finished job returns: the rows of the dataframe, or the pairs
\* of mean_rdd, in the order of img_rdd.
Collected ==
    [k \in 1..Len(img_rdd) |->
        IF args.asdf THEN task[k].row ELSE <<img_rdd[k].path, task[k].acc>>]

\* Every task has finished: the job succeeds.
Collect ==
    /\ job.st = "running"
    /\ \A k \in Files : task[k].pc = "done"
    /\ job' = [job EXCEPT !.st = "succeeded"]
    /\ out' = Collected
    /\ UNCHANGED <<img_rdd, args, task>>

Step ==
    \/ \E k \in Files : MeanBlock(k)
    \/ \E k \in Files : MeanReturn(k)
    \/ \E k \in Files : Format(k)
    \/ Collect

Next ==
    \/ \E g \in RunGeoms, asdf \in BOOLEAN : Mean(g, asdf)
    \/ Step

NextFile ==
    \/ \E g \in Geoms, asdf \in BOOLEAN : Mean(g, asdf)
    \/ Step

Spec == Init /\ [][Next]_vars

SpecFile == InitFile /\ [][NextFile]_vars

(***************************************************************************)
(* Vocabulary of the properties.                                           *)
(***************************************************************************)
Started == job.st # "idle"

JobEnded == job.st \in {"succeeded", "failed"}

\* rows*cols*channels and rows*cols of the call
BlockSize == args.nrows * args.ncols * args.ndims

Pixels == args.nrows * args.ncols

Arr(k) == img_rdd[k].arr

\* The sum of the cnt samples x[base + p*ndims + d], p < cnt (offsets from 0).
RECURSIVE ChannelSum(_, _, _, _, _)
ChannelSum(x, base, ndims, d, cnt) ==
    IF cnt = 0 THEN 0
    ELSE x[base + (cnt - 1) * ndims + d + 1] + ChannelSum(x, base, ndims, d, cnt - 1)

\* The arithmetic mean of channel d of block i of x, read off the buffer.
ChannelMean(x, i, d) ==
    Ratio(ChannelSum(x, i * BlockSize, args.ndims, d, Pixels), Pixels)

\* Every sample of channel d of block i of x equals v.
ChannelConstant(x, i, d, v) ==
    \A p \in 0..(Pixels - 1) : x[i * BlockSize + p * args.ndims + d + 1] = v

\* A block written out again: row after row, pixel after pixel, the
\* channels of a pixel side by side.
RECURSIVE Concat(_)
Concat(ss) == IF ss = <<>> THEN <<>> ELSE Head(ss) \o Concat(Tail(ss))

FlattenBlock(img) == Concat([r \in DOMAIN img |-> Concat(img[r])])

FlattenAll(imgs) == Concat([i \in DOMAIN imgs |-> FlattenBlock(imgs[i])])

\* b is the part of p after its last "/".
IsBasenameOf(b, p) ==
    /\ \A j \in DOMAIN b : b[j] # "/"
    /\ \E j \in 0..Len(p) : /\ b = SubSeq(p, j + 1, Len(p))
                            /\ j = 0 \/ p[j] = "/"

\* The file fits the declared geometry (and the legacy columns exist).
ValidFile(k) ==
    /\ Len(Arr(k)) = args.n * BlockSize
    /\ args.asdf => args.n >= 3 /\ args.ndims >= 2

\* What mean returns for file k as a function of its path, its buffer and the
\* arguments alone (defined when nothing raises).
Expected(k) ==
    LET m == _mean(Arr(k), args.n, args.nrows, args.ncols, args.ndims)
    IN  IF args.asdf THEN FormatRow(img_rdd[k].path, m) ELSE <<img_rdd[k].path, m>>

(***************************************************************************)
(* Properties.                                                             *)
(***************************************************************************)
\* C1: when the buffer holds at least n*rows*cols*channels samples, no
\* reshape fails, the blocks are decoded in stack order (n of them once
\* _mean returns), each has the shape (rows, cols, channels), and element
\* (r, c, d) of block i is buf[i*rows*cols*channels + (r*cols + c)*channels + d].
C1_DecodeLayout ==
    Started =>
      \A k \in Files :
        Len(Arr(k)) >= args.n * BlockSize =>
          LET t == task[k] IN
          /\ t.exc # "ValueError"
          /\ Len(t.imgs) = t.i
          /\ t.pc \in {"format", "done"} => Len(t.imgs) = args.n
          /\ \A i \in 0..(Len(t.imgs) - 1) :
               /\ Len(t.imgs[i + 1]) = args.nrows
               /\ \A r \in 0..(args.nrows - 1) :
                    /\ Len(t.imgs[i + 1][r + 1]) = args.ncols
                    /\ \A c \in 0..(args.ncols - 1) :
                         /\ Len(t.imgs[i + 1][r + 1][c + 1]) = args.ndims
                         /\ \A d \in 0..(args.ndims - 1) :
                              t.imgs[i + 1][r + 1][c + 1][d + 1] =
                                Arr(k)[i * BlockSize + (r * args.ncols + c) * args.ndims + d + 1]

\* C1 witness: a 2 x 2 image with several channels, stacked at least twice,
\* fully decoded from a ramp.
C1_Witness ==
    /\ Started /\ 1 \in Files
    /\ args.n >= 2 /\ args.nrows = 2 /\ args.ncols = 2 /\ args.ndims >= 2
    /\ Len(Arr(1)) >= args.n * BlockSize
    /\ Len(task[1].imgs) = args.n
    /\ task[1].imgs[1][2][1][2] # task[1].imgs[1][1][2][2]
    /\ task[1].imgs[2] # task[1].imgs[1]

\* C2: entry [i][d] of the matrix is the sum of the rows*cols samples of
\* block i at channel d divided by rows*cols; it equals v when all those
\* samples equal v; with asdf=False the job returns, per file, the n x ndims
\* matrix.
C2_MeanMatrix ==
    Started =>
      \A k \in Files :
        LET t == task[k] IN
        /\ \A i \in 0..(Len(t.acc) - 1) :
             /\ Len(t.acc[i + 1]) = args.ndims
             /\ \A d \in 0..(args.ndims - 1) :
                  /\ t.acc[i + 1][d + 1] = ChannelMean(Arr(k), i, d)
                  /\ LET v == Arr(k)[i * BlockSize + d + 1]
                     IN  ChannelConstant(Arr(k), i, d, v) => t.acc[i + 1][d + 1] = <<v, 1>>
        /\ t.pc \in {"format", "done"} => Len(t.acc) = args.n
        /\ job.st = "succeeded" /\ ~args.asdf => out[k] = <<img_rdd[k].path, t.acc>>

\* C2 witness: a returned matrix of at least 2 x 2 entries over 2 x 2 images
\* with a constant channel and a mean that is no integer.
C2_Witness ==
    /\ job.st = "succeeded" /\ ~args.asdf /\ 1 \in Files
    /\ args.n >= 2 /\ Pixels = 4 /\ args.ndims >= 2
    /\ ChannelConstant(Arr(1), 1, 0, Arr(1)[BlockSize + 1])
    /\ out[1][2][2][1] = <<Arr(1)[BlockSize + 1], 1>>
    /\ \E i \in 1..args.n, d \in 1..args.ndims : out[1][2][i][d][2] > 1
    /\ ~ChannelConstant(Arr(1), 0, 1, Arr(1)[2])

\* C3: a file with at least 3 blocks and 2 channels (and a buffer that holds
\* them) gets the row whose CH0, CH1, CH2 are the channel-1 means of blocks
\* 0, 1, 2: a function of the channel-1 samples of those blocks alone.
C3_LegacyRow ==
    Started /\ args.asdf =>
      \A k \in Files :
        LET legacy == [Filename |-> Basename(img_rdd[k].path),
                       CH0 |-> ChannelMean(Arr(k), 0, 1),
                       CH1 |-> ChannelMean(Arr(k), 1, 1),
                       CH2 |-> ChannelMean(Arr(k), 2, 1)]
        IN  /\ task[k].pc = "done" =>
                 /\ args.n >= 3 /\ args.ndims >= 2
                 /\ task[k].row = legacy
            /\ job.st = "succeeded" => out[k] = legacy
            /\ (/\ args.n >= 3 /\ args.ndims >= 2
                /\ Len(Arr(k)) >= args.n * BlockSize
                /\ Len(img_rdd) = 1
                /\ JobEnded) => job.st = "succeeded"

\* C3 witness: 4 blocks of 3 channels and several pixels; the three columns
\* differ from each other, from the channel-0 and channel-2 means of their
\* blocks and from the channel-1 mean of block 3.
C3_Witness ==
    /\ job.st = "succeeded" /\ args.asdf /\ 1 \in Files
    /\ args.n = 4 /\ args.ndims = 3 /\ Pixels >= 2
    /\ out[1].CH0 # out[1].CH1 /\ out[1].CH1 # out[1].CH2 /\ out[1].CH0 # out[1].CH2
    /\ \A i \in 0..2 : LET ch == task[1].acc[i + 1][2] IN
          /\ ch # task[1].acc[i + 1][1]
          /\ ch # task[1].acc[i + 1][3]
          /\ ch # task[1].acc[4][2]

\* C10: a buffer of exactly n*rows*cols*channels samples, decoded into its
\* n blocks and written out again block after block, is the buffer.
C10_RoundTrip ==
    Started =>
      \A k \in Files :
        (Len(Arr(k)) = args.n * BlockSize /\ task[k].pc \in {"format", "done"}) =>
          /\ Len(task[k].imgs) = args.n
          /\ FlattenAll(task[k].imgs) = Arr(k)

\* C10 witness: two or more 2 x 2 blocks of 3 channels decoded from a buffer
\* of exactly that size whose samples are not all alike.
C10_Witness ==
    /\ Started /\ 1 \in Files
    /\ args.n >= 2 /\ args.nrows = 2 /\ args.ncols = 2 /\ args.ndims = 3
    /\ Len(Arr(1)) = args.n * BlockSize
    /\ task[1].pc = "done"
    /\ Arr(1)[1] # Arr(1)[2] /\ Arr(1)[2] # Arr(1)[4]

\* C4 (the claim as stated): once the run has ended, every file whose buffer
\* is shorter than n*rows*cols*channels carries a GeometryError of its own,
\* and none of its blocks was cut from a short slice.
C4_ShortBufferGeometryError ==
    JobEnded =>
      \A k \in Files :
        Len(Arr(k)) < args.n * BlockSize =>
          /\ \A i \in DOMAIN task[k].imgs : Len(FlattenBlock(task[k].imgs[i])) = BlockSize
          /\ task[k].pc = "raised"
          /\ task[k].exc = "GeometryError"

\* C5 (the claim as stated): with fewer than 3 blocks or fewer than 2
\* channels, a file whose buffer holds its n blocks gets a ChannelIndexError
\* for its legacy row and its n x channels matrix is still returned.
C5_LegacyChannelIndexError ==
    (JobEnded /\ args.asdf /\ (args.n < 3 \/ args.ndims < 2)) =>
      \A k \in Files :
        Len(Arr(k)) >= args.n * BlockSize =>
          /\ task[k].pc = "raised"
          /\ task[k].exc = "ChannelIndexError"
          /\ k \in DOMAIN out
          /\ out[k] = <<img_rdd[k].path,
                        _mean(Arr(k), args.n, args.nrows, args.ncols, args.ndims)>>

\* C6 (the claim as stated): once a run in which exactly one file fails has
\* ended, every valid file has its record, the one it gets on its own, and
\* the failing file has an error reported for it.
C6_Isolation ==
    (JobEnded /\ Cardinality({k \in Files : ~ValidFile(k)}) = 1) =>
      \A k \in Files :
        IF ValidFile(k)
        THEN k \in DOMAIN out /\ out[k] = Expected(k)
        ELSE task[k].pc = "raised"

\* C7 (the claim as stated): no record is produced for a file whose buffer
\* length is not an exact multiple of rows*cols*channels.
C7_NoSilentTruncation ==
    job.st = "succeeded" =>
      \A k \in Files : Len(Arr(k)) % BlockSize = 0

C9_OrderIndependent ==
    [][/\ img_rdd' = img_rdd
       /\ \A k \in Files :
            /\ task'[k].pc \in {"format", "done"} =>
                 /\ ~MeanRaises(Arr(k), args'.n, args'.nrows, args'.ncols, args'.ndims)
                 /\ task'[k].acc = _mean(Arr(k), args'.n, args'.nrows, args'.ncols, args'.ndims)
            /\ (task'[k].pc = "done" /\ args'.asdf) => task'[k].row = Expected(k)'
       /\ job'.st = "succeeded" => out' = [k \in Files |-> Expected(k)']]_vars

\* C9 witness: one file's task has finished while another file's task is
\* between two blocks, and the two files hold different buffers.
C9_Witness ==
    \E k1, k2 \in Files :
        /\ task[k1].pc = "done" /\ task[k1].i >= 2
        /\ task[k2].pc = "mean" /\ 0 < task[k2].i /\ task[k2].i < args.n
        /\ Arr(k1) # Arr(k2)

====
